---- MODULE Spec2Model ----
(***************************************************************************)
(* OperationBuilder of abstraps (src/src/ir/builder.rs) as a state machine. *)
(*                                                                         *)
(* The builder's fields are the variables; every public method is one      *)
(* action.  A call ends in one of three ways: it returns normally, it      *)
(* returns the Err of a Result, or it panics.  A panic unwinds the calling  *)
(* thread, so no later call is made on the builder.                        *)
(*                                                                         *)
(* Region and BasicBlock live in crate::ir::core; the builder only calls   *)
(* them.  Their contract (append a block, access a block by index, mint    *)
(* an argument Var for a block by index, append an operation and mint its  *)
(* result Var) is the one the builder's call sites and return types fix.   *)
(***************************************************************************)
EXTENDS Integers, Sequences, FiniteSets

\* ---------------------------------------------------------------- bounds
\* How many successful push_operand, push_region, push_block, push_arg and
\* push_op calls a caller makes on one builder: a caller that uses the push
\* methods alone, and a caller that uses every method.
MaxPushes == 6
MaxPushesAll == 3
\* The same for a caller that uses every method but set_cursor, and for a
\* caller that also uses the read accessors.
MaxPushesNoCursor == 4
MaxPushesRead == 2

\* ---------------------------------------------------------------- inputs
Intrinsics == {"const"}
Keys == {"k1", "k2"}
AttrValues == {"a1", "a2"}
ChildOps == {"c1", "c2"}
\* Var handles a caller can pass to push_operand / set_operands.
Vars == {0, 1}
OperandLists == {<<>>} \cup {<<v>> : v \in Vars}
CursorValues == {0, 1, 2}

\* ---------------------------------------------------------------- state
VARIABLES
    latest,          \* Vec<Var>
    cursor,          \* (usize, usize): <<region_count, block_count>>
    intrinsic,       \* Box<dyn Intrinsic>
    operands,        \* Vec<Var>
    attrs,           \* HashMap<String, Box<dyn Attribute>>
    regions,         \* Vec<Region>; a Region is its sequence of blocks
    successors,      \* Vec<BasicBlock>
    phase,           \* "building" | "finished" | "panicked"
    built,           \* the Operation finish returned, or NoOperation
    overflowChecks,  \* whether the build checks integer overflow
    nextVar,         \* the next Var identity to be minted
    lastCall,        \* the method called last
    result,          \* how that call ended
    ret,             \* what it returned
    callArgs,        \* the arguments it was given
    budget,          \* the caller: how many pushes it makes at most
    pushOperandCalls,\* history: number of push_operand calls
    lastInsert,      \* history: per key, the attribute of the latest insert_attr call
    blockCalls       \* history: per push_region call, the successful push_block calls since

fields == <<latest, cursor, intrinsic, operands, attrs, regions, successors>>
history == <<pushOperandCalls, blockCalls, lastInsert>>
build == <<overflowChecks, budget>>
vars == <<latest, cursor, intrinsic, operands, attrs, regions, successors,
          phase, built, build, nextVar, lastCall, callArgs, result, ret,
          budget, pushOperandCalls, blockCalls, lastInsert>>

NoOperation == [none |-> TRUE]
NoRet == [none |-> TRUE]

\* The error kinds this module declares.
BuilderError == {"BuilderCreationFailure", "Caseless"}

\* ---------------------------------------------------------------- core types
EmptyBlock == [args |-> <<>>, ops |-> <<>>]
EmptyRegion == <<>>
EmptyAttrs == [k \in {} |-> "a1"]

\* `x - 1` on usize.  The result -1 stands for the wrapped value usize::MAX,
\* which a build without overflow checks computes for x = 0.
Sub1(x) == x - 1
Sub1Overflows(x) == x = 0

\* Vec indexing `v[i]` (0-based) is in bounds.
InBounds(i, v) == i >= 0 /\ i < Len(v)

\* Region: the list of its blocks.
RegionPushBlock(r, b) == Append(r, b)
RegionPushArg(r, blk, v) == [r EXCEPT ![blk + 1].args = Append(@, v)]
RegionPushOp(r, blk, o, v) == [r EXCEPT ![blk + 1].ops = Append(@, [op |-> o, res |-> v])]

RECURSIVE TotalBlocks(_)
TotalBlocks(rs) == IF rs = <<>> THEN 0 ELSE Len(Head(rs)) + TotalBlocks(Tail(rs))

\* The error Region::push_arg returns for an index that is out of range.
RegionError == [err |-> "Region"]

\* Operation::new
NewOperation(i, o, a, r, s) ==
    [intrinsic |-> i, operands |-> o, attrs |-> a, regions |-> r, successors |-> s]

\* ---------------------------------------------------------------- outcomes
Returned(call, how, value) ==
    /\ lastCall' = call
    /\ result' = how
    /\ ret' = value

\* A panic inside a `&mut self` method: the borrowed builder is left as it was.
Panic(call) ==
    /\ phase' = "panicked"
    /\ Returned(call, "Panic", NoRet)
    /\ UNCHANGED <<fields, built, build, nextVar, history>>

\* A `self` method owns the builder: when it ends, the builder is gone.
Moved ==
    /\ latest' = <<>>
    /\ cursor' = <<0, 0>>
    /\ operands' = <<>>
    /\ attrs' = EmptyAttrs
    /\ regions' = <<>>
    /\ successors' = <<>>
    /\ UNCHANGED intrinsic

\* A panic inside a `self` method drops the builder it owns.
PanicOwned(call) ==
    /\ phase' = "panicked"
    /\ Returned(call, "Panic", NoRet)
    /\ Moved
    /\ UNCHANGED <<built, build, nextVar, history>>

\* ---------------------------------------------------------------- default
\* The cursor and the successor list of a fresh builder.
\* (DefaultCursorFirstBlock and DefaultSuccessorsOne are faulty variants.)
DefaultCursorFirstBlock == <<0, 1>>
DefaultCursor == <<0, 0>>
DefaultSuccessorsOne == <<EmptyBlock>>
DefaultSuccessors == <<>>

Create ==
    /\ latest = <<>>
    /\ cursor = DefaultCursor
    /\ intrinsic \in Intrinsics
    /\ operands = <<>>
    /\ attrs = EmptyAttrs
    /\ regions = <<>>
    /\ successors = DefaultSuccessors
    /\ phase = "building"
    /\ built = NoOperation
    /\ overflowChecks \in BOOLEAN
    /\ nextVar = 0
    /\ lastCall = "default"
    /\ callArgs = <<intrinsic>>
    /\ result = "Ok"
    /\ ret = NoRet
    /\ pushOperandCalls = 0
    /\ blockCalls = <<>>
    /\ lastInsert = [k \in Keys |-> "none"]

Init == Create /\ budget = MaxPushesAll
InitPush == Create /\ budget = MaxPushes
InitNoCursor == Create /\ budget = MaxPushesNoCursor
InitRead == Create /\ budget = MaxPushesRead

\* ---------------------------------------------------------------- methods
\* The pushes that succeeded so far.
Pushes == Len(regions) + TotalBlocks(regions) + nextVar + pushOperandCalls

\* get_region panics: `self.cursor.0 - 1` overflows, or `self.regions[reg]` is
\* out of bounds (which it is for the wrapped index too).
GetRegionPanics == Sub1Overflows(cursor[1]) \/ ~InBounds(Sub1(cursor[1]), regions)

\* The 1-based position of the region get_region returns.
\* (ActiveRegionLast is the faulty variant that ignores the cursor.)
ActiveRegionLast == Len(regions)
ActiveRegion == Sub1(cursor[1]) + 1

push_operand(v) ==
    /\ phase = "building"
    /\ callArgs' = <<v>>
    /\ Pushes < budget
    /\ operands' = Append(operands, v)
    /\ pushOperandCalls' = pushOperandCalls + 1
    /\ Returned("push_operand", "Ok", NoRet)
    /\ UNCHANGED <<latest, cursor, intrinsic, attrs, regions, successors,
                   phase, built, build, nextVar, blockCalls, lastInsert>>

\* The cursor push_region leaves: `(self.cursor.0 + 1, self.cursor.1)`.
\* (PushRegionCursorReset is the faulty variant that resets the block half.)
PushRegionCursorReset(c) == <<c[1] + 1, 0>>
PushRegionCursor(c) == <<c[1] + 1, c[2]>>

push_region(r) ==
    /\ phase = "building"
    /\ callArgs' = <<r>>
    /\ Pushes < budget
    /\ regions' = Append(regions, r)
    /\ cursor' = PushRegionCursor(cursor)
    /\ blockCalls' = Append(blockCalls, 0)
    /\ Returned("push_region", "Ok", NoRet)
    /\ UNCHANGED <<latest, intrinsic, operands, attrs, successors,
                   phase, built, build, nextVar, pushOperandCalls, lastInsert>>

\* The operand list set_operands leaves: `self.operands = args`.
\* (SetOperandsExtends is the faulty variant that keeps the old operands.)
SetOperandsExtends(old, args) == old \o args
SetOperands(old, args) == args

set_operands(args) ==
    /\ phase = "building"
    /\ callArgs' = <<args>>
    /\ operands' = SetOperands(operands, args)
    /\ Returned("set_operands", "Ok", NoRet)
    /\ UNCHANGED <<latest, cursor, intrinsic, attrs, regions, successors,
                   phase, built, build, nextVar, history>>

set_cursor(reg, blk) ==
    /\ phase = "building"
    /\ callArgs' = <<reg, blk>>
    /\ cursor' = <<reg, blk>>
    /\ Returned("set_cursor", "Ok", NoRet)
    /\ UNCHANGED <<latest, intrinsic, operands, attrs, regions, successors,
                   phase, built, build, nextVar, history>>

\* `HashMap::insert`: insert, or overwrite the entry of the key.
\* (HashMapKeepFirst is the faulty variant that keeps an existing entry.)
HashMapKeepFirst(m, k, attr) ==
    [x \in DOMAIN m \cup {k} |-> IF x \in DOMAIN m THEN m[x] ELSE attr]
HashMapInsert(m, k, attr) ==
    [x \in DOMAIN m \cup {k} |-> IF x = k THEN attr ELSE m[x]]

insert_attr(k, attr) ==
    /\ phase = "building"
    /\ callArgs' = <<k, attr>>
    /\ attrs' = HashMapInsert(attrs, k, attr)
    /\ lastInsert' = [lastInsert EXCEPT ![k] = attr]
    /\ Returned("insert_attr", "Ok", NoRet)
    /\ UNCHANGED <<latest, cursor, intrinsic, operands, regions, successors,
                   phase, built, build, nextVar, pushOperandCalls, blockCalls>>

\* The region push_block appends to, and the cursor it leaves.
\* (PushBlockRegionPrevious is the faulty variant that is off by one region.)
PushBlockRegionPrevious == IF ActiveRegion > 1 THEN ActiveRegion - 1 ELSE ActiveRegion
PushBlockRegion == ActiveRegion
\* (PushBlockCursorRegionHalf is the faulty variant that bumps the region half.)
PushBlockCursorRegionHalf(c) == <<c[1] + 1, c[2]>>
PushBlockCursor(c) == <<c[1], c[2] + 1>>

push_block(b) ==
    /\ phase = "building"
    /\ callArgs' = <<b>>
    /\ IF GetRegionPanics
       THEN Panic("push_block")
       ELSE /\ Pushes < budget
            /\ regions' = [regions EXCEPT ![PushBlockRegion] = RegionPushBlock(@, b)]
            /\ cursor' = PushBlockCursor(cursor)
            /\ blockCalls' = [blockCalls EXCEPT ![Len(blockCalls)] = @ + 1]
            /\ Returned("push_block", "Ok", NoRet)
            /\ UNCHANGED <<latest, intrinsic, operands, attrs, successors, phase,
                           built, build, nextVar, pushOperandCalls, lastInsert>>

\* The block index the block-scoped methods compute: `self.cursor.1 - 1`.
\* (BlockIndexOffByOne is the faulty variant that forgets the subtraction.)
BlockIndexOffByOne(c) == c[2]
BlockIndex(c) == Sub1(c[2])

\* `cursor.1 - 1` panics in a build that checks overflow.
BlockIndexPanics == overflowChecks /\ Sub1Overflows(cursor[2])

get_block ==
    /\ phase = "building"
    /\ callArgs' = <<>>
    /\ IF BlockIndexPanics \/ GetRegionPanics
          \/ ~InBounds(BlockIndex(cursor), regions[ActiveRegion])
       THEN Panic("get_block")
       ELSE /\ Returned("get_block", "Ok",
                        [place |-> <<ActiveRegion, BlockIndex(cursor) + 1>>,
                         block |-> regions[ActiveRegion][BlockIndex(cursor) + 1]])
            /\ UNCHANGED <<fields, phase, built, build, nextVar, history>>

\* push_arg also pushes the minted Var as an operand: `if blk == 0`.
\* (LinksAnyBlock and LinksSecondBlock are faulty variants of the test.)
LinksAnyBlock(blk) == TRUE
LinksSecondBlock(blk) == blk = 1
LinksToOperands(blk) == blk = 0

push_arg ==
    /\ phase = "building"
    /\ callArgs' = <<>>
    /\ IF BlockIndexPanics \/ GetRegionPanics
       THEN Panic("push_arg")
       ELSE IF ~InBounds(BlockIndex(cursor), regions[ActiveRegion])
       THEN /\ Returned("push_arg", "Err", RegionError)
            /\ UNCHANGED <<fields, phase, built, build, nextVar, history>>
       ELSE /\ Pushes < budget
            /\ regions' = [regions EXCEPT
                              ![ActiveRegion] = RegionPushArg(@, BlockIndex(cursor), nextVar)]
            /\ operands' = IF LinksToOperands(BlockIndex(cursor))
                           THEN Append(operands, nextVar)
                           ELSE operands
            /\ nextVar' = nextVar + 1
            /\ Returned("push_arg", "Ok", nextVar)
            /\ UNCHANGED <<latest, cursor, intrinsic, attrs, successors, phase,
                           built, build, history>>

\* `self.latest = vec![ret]`
\* (LatestAccumulates is the faulty variant that pushes instead of replacing.)
LatestAccumulates(old, v) == Append(old, v)
LatestAfterPushOp(old, v) == <<v>>

push_op(v) ==
    /\ phase = "building"
    /\ callArgs' = <<v>>
    /\ IF BlockIndexPanics \/ GetRegionPanics
          \/ ~InBounds(BlockIndex(cursor), regions[ActiveRegion])
       THEN PanicOwned("push_op")
       ELSE /\ Pushes < budget
            /\ regions' = [regions EXCEPT
                              ![ActiveRegion] = RegionPushOp(@, BlockIndex(cursor), v, nextVar)]
            /\ latest' = LatestAfterPushOp(latest, nextVar)
            /\ nextVar' = nextVar + 1
            /\ Returned("push_op", "Ok", NoRet)
            /\ UNCHANGED <<cursor, intrinsic, operands, attrs, successors, phase,
                           built, build, history>>

\* get_latest returns a copy of `latest`.
get_latest == latest

\* What the other read accessors return.  get_operands ignores its argument.
get_intrinsic == intrinsic
get_operands(arg) == operands
get_cursor == cursor
get_attrs == attrs
get_regions == regions

\* `self.attrs.get(key)`: Some(attribute) or None.
Absent == [absent |-> TRUE]
get_attr(key) == IF key \in DOMAIN attrs THEN [some |-> attrs[key]] ELSE Absent

\* A call of a read accessor (`&self`): it returns `value`.
\* (ReadResettingCursor is the faulty variant of a reader that writes the cursor.)
ReadResettingCursor(call, a, value) ==
    /\ phase = "building"
    /\ callArgs' = a
    /\ cursor' = DefaultCursor
    /\ Returned(call, "Ok", value)
    /\ UNCHANGED <<latest, intrinsic, operands, attrs, regions, successors,
                   phase, built, build, nextVar, history>>
Read(call, a, value) ==
    /\ phase = "building"
    /\ callArgs' = a
    /\ Returned(call, "Ok", value)
    /\ UNCHANGED <<fields, phase, built, build, nextVar, history>>

\* (finishWithoutOperands is the faulty variant that loses the operand list.)
finishWithoutOperands ==
    /\ phase = "building"
    /\ callArgs' = <<>>
    /\ built' = NewOperation(intrinsic, <<>>, attrs, regions, successors)
    /\ phase' = "finished"
    /\ Moved
    /\ Returned("finish", "Ok", NoRet)
    /\ UNCHANGED <<build, nextVar, history>>

finish ==
    /\ phase = "building"
    /\ callArgs' = <<>>
    /\ built' = NewOperation(intrinsic, operands, attrs, regions, successors)
    /\ phase' = "finished"
    /\ Moved
    /\ Returned("finish", "Ok", NoRet)
    /\ UNCHANGED <<build, nextVar, history>>

\* ---------------------------------------------------------------- specifications
\* Every method that takes `&mut self` or `self`, with every argument.
Next ==
    \/ \E v \in Vars : push_operand(v)
    \/ \E args \in OperandLists : set_operands(args)
    \/ \E reg \in CursorValues, blk \in CursorValues : set_cursor(reg, blk)
    \/ \E k \in Keys, attr \in AttrValues : insert_attr(k, attr)
    \/ push_region(EmptyRegion)
    \/ push_block(EmptyBlock)
    \/ get_block
    \/ push_arg
    \/ \E v \in ChildOps : push_op(v)
    \/ finish

Spec == Init /\ [][Next]_vars

\* Those, and the read accessors (`&self`).
NextRead ==
    \/ Next
    \/ Read("get_latest", <<>>, get_latest)
    \/ Read("get_intrinsic", <<>>, get_intrinsic)
    \/ \E v \in Vars : Read("get_operands", <<v>>, get_operands(v))
    \/ Read("get_cursor", <<>>, get_cursor)
    \/ Read("get_attrs", <<>>, get_attrs)
    \/ \E k \in Keys : Read("get_attr", <<k>>, get_attr(k))
    \/ Read("get_regions", <<>>, get_regions)

SpecRead == InitRead /\ [][NextRead]_vars

\* Every `&mut self` or `self` method but set_cursor.
NextNoCursor ==
    \/ \E v \in Vars : push_operand(v)
    \/ \E args \in OperandLists : set_operands(args)
    \/ \E k \in Keys, attr \in AttrValues : insert_attr(k, attr)
    \/ push_region(EmptyRegion)
    \/ push_block(EmptyBlock)
    \/ get_block
    \/ push_arg
    \/ \E v \in ChildOps : push_op(v)
    \/ finish

SpecNoCursor == InitNoCursor /\ [][NextNoCursor]_vars

\* The push methods alone: no set_operands, no set_cursor.
NextPush ==
    \/ \E v \in Vars : push_operand(v)
    \/ push_region(EmptyRegion)
    \/ push_block(EmptyBlock)
    \/ get_block
    \/ push_arg
    \/ \E v \in ChildOps : push_op(v)
    \/ finish

SpecPush == InitPush /\ [][NextPush]_vars
\* ---------------------------------------------------------------- properties
\* The cursor names a region of the builder, and a block of that region.
HasActiveRegion == cursor[1] >= 1 /\ cursor[1] <= Len(regions)
HasActiveBlock ==
    /\ HasActiveRegion
    /\ cursor[2] >= 1
    /\ cursor[2] <= Len(regions[cursor[1]])

\* The error values section 7 of the specification names for cursor misuse.
NoActiveRegion == [err |-> "NoActiveRegion"]
NoActiveBlock == [err |-> "NoActiveBlock"]

\* The arguments held by the entry blocks (index 0) of all regions.
RECURSIVE EntryArgs(_)
EntryArgs(rs) ==
    IF rs = <<>> THEN 0
    ELSE (IF Head(rs) = <<>> THEN 0 ELSE Len(Head(rs)[1].args)) + EntryArgs(Tail(rs))

\* Every Var minted into the regions: block arguments and operation results.
BlockVars(b) ==
    {b.args[k] : k \in 1 .. Len(b.args)} \cup {b.ops[k].res : k \in 1 .. Len(b.ops)}
MintedVars(rs) ==
    UNION {UNION {BlockVars(rs[i][j]) : j \in 1 .. Len(rs[i])} : i \in 1 .. Len(rs)}

BlockCounts(rs) == [i \in 1 .. Len(rs) |-> Len(rs[i])]

\* C1: with the push methods alone (SpecPush), the operand list is as long as
\* the number of push_operand calls plus the number of arguments minted on the
\* entry blocks (index 0) of all regions; finish hands that list on unchanged.
C1_OperandCount ==
    /\ phase = "building" =>
          Len(operands) = pushOperandCalls + EntryArgs(regions)
    /\ phase = "finished" =>
          Len(built.operands) = pushOperandCalls + EntryArgs(built.regions)

\* C1 witness: one explicit operand and one argument minted on the entry block
\* of a second region.
C1_Witness ==
    /\ phase = "building"
    /\ pushOperandCalls = 1
    /\ Len(regions) = 2
    /\ Len(regions[2]) = 1
    /\ Len(regions[2][1].args) = 1
    /\ Len(operands) = 2

\* C2 (as claimed): push_block with region_count = 0 returns the error
\* NoActiveRegion and leaves the region list as it was.
C2_PushBlockReturnsNoActiveRegion ==
    [][(lastCall' = "push_block" /\ cursor[1] = 0) =>
          (result' = "Err" /\ ret' = NoActiveRegion /\ regions' = regions)]_vars

\* C3 (as claimed): with an active region and block_count = 0, get_block,
\* push_arg and push_op return the error NoActiveBlock.
C3_BlockScopedReturnNoActiveBlock ==
    [][(lastCall' \in {"get_block", "push_arg", "push_op"}
         /\ HasActiveRegion /\ cursor[2] = 0) =>
          (result' = "Err" /\ ret' = NoActiveBlock)]_vars

\* C4 (as claimed): a push_block, push_arg or push_op call that fails leaves
\* every component of the builder as it was before the call.
C4_FailedCallLeavesBuilder ==
    [][(lastCall' \in {"push_block", "push_arg", "push_op"} /\ result' # "Ok") =>
          fields' = fields]_vars

\* C5 (as claimed): no sequence of builder calls panics.
C5_NoPanic == phase # "panicked" /\ result # "Panic"

\* C6 (as claimed): whenever region_count > 0 and block_count > 0, get_block
\* succeeds and returns the block at index block_count - 1 of the region at
\* index region_count - 1.
C6_GetBlockSucceedsWhenCountsPositive ==
    [][(lastCall' = "get_block" /\ cursor[1] > 0 /\ cursor[2] > 0) =>
          /\ result' = "Ok"
          /\ ret' = [place |-> <<cursor[1], cursor[2]>>,
                     block |-> regions[cursor[1]][cursor[2]]]]_vars

\* C6 (amended): with the push methods alone, whenever region_count > 0 and
\* 0 < block_count <= the number of blocks of the active region, get_block
\* succeeds and returns the block at index block_count - 1 of the region at
\* index region_count - 1; whenever block_count exceeds the number of blocks of
\* the active region (as right after a push_region that follows push_block
\* calls), get_block does not succeed.
C6_GetBlockReturnsActiveBlock ==
    [][lastCall' = "get_block" =>
          /\ HasActiveBlock =>
                /\ result' = "Ok"
                /\ ret' = [place |-> <<cursor[1], cursor[2]>>,
                           block |-> regions[cursor[1]][cursor[2]]]
          /\ (HasActiveRegion /\ cursor[2] > Len(regions[cursor[1]])) =>
                result' # "Ok"]_vars

\* C6 witness: get_block has returned the second block of a region.
C6_Witness ==
    /\ lastCall = "get_block"
    /\ result = "Ok"
    /\ ret.place = <<1, 2>>
    /\ ret.block = regions[1][2]

\* C7: with the push methods alone, the Operation finish returns has one region
\* per push_region call, and region i has as many blocks as push_block calls
\* succeeded between the i-th push_region call and the next.
C7_FinishedRegionShape ==
    phase = "finished" =>
        /\ Len(built.regions) = Len(blockCalls)
        /\ \A i \in 1 .. Len(built.regions) : Len(built.regions[i]) = blockCalls[i]

\* C7 witness: three push_block calls in the first region and one in the second
\* gave regions of sizes 3 and 1.
C7_Witness ==
    /\ phase = "finished"
    /\ blockCalls = <<3, 1>>
    /\ BlockCounts(built.regions) = <<3, 1>>

\* C8: push_arg with an active block returns a fresh Var, appends it to the
\* arguments of the active block alone, and appends it to the operand list
\* exactly when the active block has index 0.
C8_PushArgLinksEntryBlock ==
    [][(lastCall' = "push_arg" /\ HasActiveBlock) =>
          /\ result' = "Ok"
          /\ ret' \notin MintedVars(regions)
          /\ regions' = [regions EXCEPT ![cursor[1]][cursor[2]].args = Append(@, ret')]
          /\ operands' = IF cursor[2] - 1 = 0 THEN Append(operands, ret') ELSE operands
          /\ UNCHANGED <<latest, cursor, attrs, successors>>]_vars

\* C8 witness: default; push_region; push_block; push_arg left the operand list
\* and the entry block's argument list with the same single Var.
C8_Witness ==
    /\ lastCall = "push_arg"
    /\ result = "Ok"
    /\ cursor = <<1, 1>>
    /\ regions = <<<<[args |-> <<ret>>, ops |-> <<>>]>>>>
    /\ operands = <<ret>>

\* C9: push_op with an active block appends the child, with the Var minted for
\* it, at the end of the operation list of the active block, changes no other
\* block or region, and leaves get_latest returning exactly that Var.
C9_PushOpAppendsAndSetsLatest ==
    [][(lastCall' = "push_op" /\ HasActiveBlock) =>
          /\ result' = "Ok"
          /\ LET ops == regions'[cursor[1]][cursor[2]].ops
                 new == ops[Len(ops)]
             IN /\ new.op \in ChildOps
                /\ new.res \notin MintedVars(regions)
                /\ regions' = [regions EXCEPT
                                  ![cursor[1]][cursor[2]].ops = Append(@, new)]
                /\ get_latest' = <<new.res>>
          /\ UNCHANGED <<cursor, operands, attrs, successors>>]_vars

\* C9 witness: two different children pushed into one block, in call order, and
\* latest is the Var of the second.
C9_Witness ==
    /\ lastCall = "push_op"
    /\ result = "Ok"
    /\ Len(regions) = 1
    /\ Len(regions[1]) = 1
    /\ Len(regions[1][1].ops) = 2
    /\ regions[1][1].ops[1].op # regions[1][1].ops[2].op
    /\ regions[1][1].ops[1].res < regions[1][1].ops[2].res
    /\ get_latest = <<regions[1][1].ops[2].res>>

\* C10: push_region appends exactly the given region at the end of the region
\* list, adds 1 to region_count, and leaves block_count, operands, attributes,
\* successors and latest as they were.
C10_PushRegionFrame ==
    [][lastCall' = "push_region" =>
          /\ result' = "Ok"
          /\ regions' = Append(regions, EmptyRegion)
          /\ cursor'[1] = cursor[1] + 1
          /\ cursor'[2] = cursor[2]
          /\ UNCHANGED <<operands, attrs, successors, latest>>]_vars

\* C10 witness: push_region on a builder whose block_count was 1 left it at 1.
C10_Witness ==
    /\ lastCall = "push_region"
    /\ Len(regions) = 2
    /\ Len(regions[1]) = 1
    /\ cursor = <<2, 1>>

\* C11: finish can be called in every state of a builder under construction,
\* returns Ok, and the Operation it returns holds exactly the intrinsic, the
\* operand list, the attribute mapping, the region list and the successor list
\* the builder held when it was called.
C11_FinishCarriesBuilderState ==
    /\ [](phase = "building" => ENABLED finish)
    /\ [][lastCall' = "finish" =>
             /\ phase = "building"
             /\ result' = "Ok"
             /\ phase' = "finished"
             /\ built'.intrinsic = intrinsic
             /\ built'.operands = operands
             /\ built'.attrs = attrs
             /\ built'.regions = regions
             /\ built'.successors = successors]_vars

\* C11 witness: finish on a builder with a stale cursor (block_count 1, the
\* active region empty) and no operand.
C11_Witness ==
    /\ phase = "finished"
    /\ BlockCounts(built.regions) = <<1, 0>>
    /\ built.operands = <<>>
    /\ built.intrinsic = intrinsic

\* C12 (as claimed): once a later push_region has happened, every earlier
\* region stays as it is under every later call on the builder.
C12_EarlierRegionsFrozen ==
    [][phase' = "building" =>
          \A i \in 1 .. (Len(regions) - 1) : regions'[i] = regions[i]]_vars

\* C12 (amended): a call on the builder changes no region but the active one,
\* the region at index region_count - 1: an earlier region stays as it is for as
\* long as set_cursor has not made it the active region again.
C12_OnlyActiveRegionChanges ==
    [][phase' = "building" =>
          /\ Len(regions') >= Len(regions)
          /\ \A i \in 1 .. Len(regions) :
                i # cursor[1] => regions'[i] = regions[i]]_vars

\* C12 witness: after two push_region calls, set_cursor made the first region
\* active again and push_block appended to it.
C12_Witness ==
    /\ lastCall = "push_block"
    /\ result = "Ok"
    /\ Len(regions) = 2
    /\ cursor[1] = 1
    /\ BlockCounts(regions) = <<1, 0>>

\* What get_attr is to return for a key, by the history of insert_attr calls.
LatestInsert(k) == IF lastInsert[k] = "none" THEN Absent ELSE [some |-> lastInsert[k]]

\* C13: get_attr(k) returns the attribute of the latest insert_attr(k, _) call,
\* and None, not an error, for a key never inserted; the mapping has one entry
\* per distinct key inserted; a get_attr call changes nothing of the builder.
C13_AttrsLastWriteWins ==
    /\ [](phase = "building" =>
            /\ \A k \in Keys : get_attr(k) = LatestInsert(k)
            /\ DOMAIN get_attrs = {k \in Keys : lastInsert[k] # "none"}
            /\ lastCall = "get_attr" =>
                  (result = "Ok" /\ ret = LatestInsert(callArgs[1])))
    /\ [][lastCall' = "get_attr" => (fields' = fields /\ phase' = phase)]_vars

\* C13 witness: k1 was inserted, and get_attr of k2, never inserted, returned
\* None.
C13_Witness ==
    /\ lastCall = "get_attr"
    /\ callArgs = <<"k2">>
    /\ result = "Ok"
    /\ ret = Absent
    /\ DOMAIN attrs = {"k1"}
    /\ attrs["k1"] = "a2"

\* C14: default never fails and yields a builder with empty latest, operands,
\* attributes, regions and successors, and the cursor (0, 0).
C14_DefaultIsEmpty ==
    lastCall = "default" =>
        /\ result = "Ok"
        /\ phase = "building"
        /\ intrinsic = callArgs[1]
        /\ get_latest = <<>>
        /\ get_cursor = <<0, 0>>
        /\ operands = <<>>
        /\ DOMAIN get_attrs = {}
        /\ get_regions = <<>>
        /\ successors = <<>>

\* C14 witness: the builder default has just returned.
C14_Witness == lastCall = "default" /\ result = "Ok" /\ intrinsic \in Intrinsics /\ Pushes = 0

\* C15: set_operands(args) leaves exactly args as the operand list, whatever
\* it was; push_operand(v) appends v after the earlier operands; neither fails.
C15_SetReplacesPushAppends ==
    /\ [](phase = "building" => (ENABLED set_operands(<<>>) /\ \A v \in Vars : ENABLED set_operands(<<v>>)))
    /\ [][/\ lastCall' = "set_operands" =>
                (result' = "Ok" /\ phase' = "building" /\ operands' = callArgs'[1])
          /\ lastCall' = "push_operand" =>
                (result' = "Ok" /\ phase' = "building"
                    /\ operands' = operands \o <<callArgs'[1]>>)]_vars

\* C15 witness: set_operands(<<1>>) was called on a builder whose operand list
\* held the entry-block argument 0 linked by push_arg; the link is discarded.
C15_Witness ==
    /\ lastCall = "set_operands"
    /\ callArgs = << <<1>> >>
    /\ operands = <<1>>
    /\ EntryArgs(regions) = 1
    /\ nextVar = 1

\* C16: without set_cursor, the region half of the cursor is the length of the
\* region list, so the active region is the most recently pushed one.
C16_CursorRegionIsRegionCount ==
    phase = "building" =>
        /\ cursor[1] = Len(regions)
        /\ HasActiveRegion => ActiveRegion = Len(regions)

\* C16 witness: a block was pushed into the second of two regions.
C16_Witness ==
    /\ lastCall = "push_block"
    /\ result = "Ok"
    /\ cursor[1] = 2
    /\ BlockCounts(regions) = <<0, 1>>

RECURSIVE SumSeq(_)
SumSeq(q) == IF q = <<>> THEN 0 ELSE Head(q) + SumSeq(Tail(q))

\* C17: without set_cursor, the block half of the cursor is the number of
\* successful push_block calls made so far over all regions; it never decreases.
C17_CursorBlockIsTotalPushBlocks ==
    /\ [](phase = "building" =>
            (cursor[2] = SumSeq(blockCalls) /\ cursor[2] = TotalBlocks(regions)))
    /\ [][phase' = "building" => cursor'[2] >= cursor[2]]_vars

\* C17 witness: one block in each of two regions; the block half is 2, not the
\* block count 1 of the active region.
C17_Witness ==
    /\ phase = "building"
    /\ blockCalls = <<1, 1>>
    /\ cursor = <<2, 2>>
    /\ Len(regions[2]) = 1

\* C18: the successor list is empty in every builder state, and every
\* Operation finish produces has no successor block.
C18_NoSuccessors ==
    /\ phase = "building" => successors = <<>>
    /\ phase = "finished" => built.successors = <<>>

\* C18 witness: an Operation with a region and an operand was finished.
C18_Witness ==
    /\ phase = "finished"
    /\ lastCall = "finish"
    /\ Len(built.regions) = 1
    /\ Len(built.operands) = 1
    /\ built.successors = <<>>

Readers ==
    {"get_latest", "get_intrinsic", "get_operands", "get_cursor", "get_attrs",
     "get_attr", "get_regions"}

\* C19: push_operand and set_operands change only the operand list,
\* insert_attr only the attribute mapping, set_cursor only the cursor; the
\* read accessors change no component of the builder.
C19_SettersAndReadersFrame ==
    [][/\ lastCall' \in {"push_operand", "set_operands"} =>
            /\ phase' = "building"
            /\ UNCHANGED <<latest, cursor, intrinsic, attrs, regions, successors>>
       /\ lastCall' = "insert_attr" =>
            /\ phase' = "building"
            /\ UNCHANGED <<latest, cursor, intrinsic, operands, regions, successors>>
       /\ lastCall' = "set_cursor" =>
            /\ phase' = "building"
            /\ UNCHANGED <<latest, intrinsic, operands, attrs, regions, successors>>
       /\ lastCall' \in Readers =>
            /\ phase' = "building"
            /\ UNCHANGED fields]_vars

\* C19 witness: get_cursor was called on a builder holding a region with a
\* block, an attribute and an operand.
C19_Witness ==
    /\ lastCall = "get_cursor"
    /\ result = "Ok"
    /\ ret = <<1, 1>>
    /\ cursor = <<1, 1>>
    /\ BlockCounts(regions) = <<1>>
    /\ DOMAIN attrs = {"k1"}
    /\ operands = <<0>>
====
